---- MODULE Spec2Model ----
(***************************************************************************)
(* Model of the Telegram mini-app backend: the init-data validator         *)
(* (backend/app/tg_auth.py), the websocket endpoint and the connection     *)
(* manager (backend/app/ws.py) and the complete_task / ban_user handlers   *)
(* (backend/app/api.py) over the tables of backend/app/models.py.          *)
(*                                                                         *)
(* Every `await` of a handler is a separate step, so that handlers         *)
(* interleave exactly where the event loop can switch tasks.  Money is     *)
(* counted in hundredths (Numeric(10, 2)).  The rate_limit dependency of   *)
(* the routes touches only its Redis counter and is not part of these      *)
(* handlers' steps.                                                        *)
(***************************************************************************)
EXTENDS Integers, Sequences, FiniteSets, Bags, TLC

(***************************************************************************)
(* Bounds of the model.                                                    *)
(***************************************************************************)
\* websockets opened in the specification of the websocket gate
GateChans == 2
\* concurrent complete_task requests in the specification of the ledger
LedgerReqs == 2
\* websockets opened in the specification of the fan-out
NotifyChans == 3
\* the auth_telegram, get_me and /start calls in flight at once
AuthCalls == {1, 2}
\* the rate_limit calls in flight at once
RateSlots == {1, 2}
\* the increments of one counter the model follows within one window
RateCalls == 62

\* the ledger is explored with one websocket client beside its requests, the
\* fan-out with one complete_task request beside its websockets
LedgerChans == {1}
NotifyReqs == {1}

Max(S) == CHOOSE x \in S : \A y \in S : y <= x

Reqs == 1..LedgerReqs
Chans == 1..Max({GateChans, NotifyChans})

(***************************************************************************)
(* Identities.  Telegram user ids 1 and 2; settings.admin_ids names 2.     *)
(***************************************************************************)
UserIds == {1, 2}
AdminIds == {2}

\* settings.bot_token, and a token an attacker signs with instead
BotToken == 7
ForgedToken == BotToken + 1

(***************************************************************************)
(* Identity tokens.  A token is the list of (key, value) pairs that        *)
(* parse_qsl yields for the raw string, in wire order; the empty string    *)
(* is the empty list.  Non-hash values are numbers; the value of `user`    *)
(* is a JSON document, coded as 10 * id + username code.  The value of     *)
(* `hash` is a digest, a sequence of numbers (empty: a blank value).       *)
(***************************************************************************)
KeyRank(k) ==
    CASE k = "auth_date" -> 1
      [] k = "hash" -> 2
      [] k = "start_param" -> 3
      [] k = "user" -> 4

\* (k1, v1) < (k2, v2) as Python orders tuples of strings
PairLess(p, q) ==
    \/ KeyRank(p[1]) < KeyRank(q[1])
    \/ KeyRank(p[1]) = KeyRank(q[1]) /\ p[2] < q[2]

RECURSIVE InsertSorted(_, _)
InsertSorted(p, s) ==
    IF s = <<>> THEN <<p>>
    ELSE IF PairLess(p, Head(s)) THEN <<p>> \o s
    ELSE <<Head(s)>> \o InsertSorted(p, Tail(s))

\* sorted(pairs)
RECURSIVE sorted(_)
sorted(pairs) ==
    IF pairs = <<>> THEN <<>>
    ELSE InsertSorted(Head(pairs), sorted(Tail(pairs)))

\* the pairs with k != "hash", order kept
RECURSIVE NonHash(_)
NonHash(pairs) ==
    IF pairs = <<>> THEN <<>>
    ELSE IF Head(pairs)[1] = "hash" THEN NonHash(Tail(pairs))
    ELSE <<Head(pairs)>> \o NonHash(Tail(pairs))

\* a check string that keeps the fields in the order of the token
data_check_string_as_given(pairs) == NonHash(pairs)

\* "\n".join(f"{k}={v}" for k, v in sorted(...) if k != "hash"): the sorted
\* list with the hash pairs filtered out (filtering commutes with sorting)
data_check_string(pairs) == sorted(NonHash(pairs))

\* the text of the check string, as the numbers that spell it
RECURSIVE Encode(_)
Encode(s) ==
    IF s = <<>> THEN <<>>
    ELSE <<KeyRank(Head(s)[1]), Head(s)[2]>> \o Encode(Tail(s))

\* hashlib.sha256(token).digest(): a collision-free digest
Sha256(x) == 1000 + x

\* hmac.new(key, msg, sha256).hexdigest(): determined by key and message,
\* and different for different keys or messages
HmacHex(key, msg) == <<key>> \o Encode(msg)

\* dict(parse_qsl(...)): the last value of each key
RECURSIVE dict(_)
dict(pairs) ==
    IF pairs = <<>> THEN <<>>
    ELSE LET rest == dict(Tail(pairs))
             k == Head(pairs)[1]
         IN  IF k \in DOMAIN rest THEN rest
             ELSE (k :> Head(pairs)[2]) @@ rest

\* values = dict(parse_qsl(init_data, keep_blank_values=True))
values_of(init_data) == dict(init_data)

\* validate_init_data: ok = FALSE is the HTTPException(403)
validate_init_data(init_data) ==
    IF init_data = <<>> THEN [ok |-> FALSE, values |-> <<>>]
    ELSE LET values == values_of(init_data)
             received_hash == IF "hash" \in DOMAIN values THEN values["hash"] ELSE <<>>
             secret_key == Sha256(BotToken)
             computed_hash == HmacHex(secret_key, data_check_string(init_data))
         IN  IF received_hash = <<>> THEN [ok |-> FALSE, values |-> <<>>]
             ELSE IF computed_hash # received_hash THEN [ok |-> FALSE, values |-> <<>>]
             ELSE IF "user" \notin DOMAIN values THEN [ok |-> FALSE, values |-> <<>>]
             ELSE [ok |-> TRUE, values |-> values]

\* int(json.loads(data["user"])["id"])
user_id_of(values) == values["user"] \div 10

\* a token as the platform (or, with another secret, a forger) signs it
SignWith(secret, fields) ==
    fields \o << <<"hash", HmacHex(Sha256(secret), data_check_string(fields))>> >>

UserField(u) == <<"user", 10 * u>>

\* the init data the platform issues to user u
Issued(u) == {SignWith(BotToken, << <<"auth_date", 1>>, UserField(u)>>)}

\* the init data clients offer: none, issued, forged, unsigned, with a blank
\* hash, and signed but without a user
Tokens ==
    {<<>>}
    \cup UNION {Issued(u) : u \in UserIds}
    \cup {SignWith(ForgedToken, << <<"auth_date", 1>>, UserField(u)>>) : u \in UserIds}
    \cup {<< <<"auth_date", 1>>, UserField(1)>>,
          << <<"auth_date", 1>>, UserField(1), <<"hash", <<>> >> >>,
          SignWith(BotToken, << <<"auth_date", 1>> >>)}

\* the token without its i-th pair
Without(t, i) == SubSeq(t, 1, i - 1) \o SubSeq(t, i + 1, Len(t))

\* the orders in which the pairs of a token can stand in the query string
RECURSIVE Reorderings(_)
Reorderings(t) ==
    IF t = <<>> THEN {<<>>}
    ELSE UNION {{<<t[i]>> \o rest : rest \in Reorderings(Without(t, i))} :
                   i \in 1..Len(t)}

\* the check string as the platform builds it: the fields other than hash,
\* in ascending order
Canonical(t) ==
    CHOOSE s \in Reorderings(SelectSeq(t, LAMBDA p : p[1] # "hash")) :
        \A i, j \in 1..Len(s) : i < j => ~PairLess(s[j], s[i])

\* the digest the holder of `secret` computes for the fields of t
DigestOf(secret, t) == HmacHex(Sha256(secret), Canonical(t))

\* the longest token given to validate_init_data
MaxFields == 4

\* the fields other than hash a token given to validate_init_data is made of
ProbeFields ==
    {<<"auth_date", 1>>, <<"auth_date", 2>>, UserField(1), <<"start_param", 3>>}

\* the hash fields that come with the fields f: none, the platform's, a
\* forger's, a blank one, the platform's and a forger's
HashFields(f) ==
    {<<>>,
     << <<"hash", DigestOf(BotToken, f)>> >>,
     << <<"hash", DigestOf(ForgedToken, f)>> >>,
     << <<"hash", <<>> >> >>,
     << <<"hash", DigestOf(BotToken, f)>>, <<"hash", DigestOf(ForgedToken, f)>> >>}

\* the elements of a set as a list, in every order
RECURSIVE OrdersOf(_)
OrdersOf(S) ==
    IF S = {} THEN {<<>>}
    ELSE UNION {{<<x>> \o rest : rest \in OrdersOf(S \ {x})} : x \in S}

\* the fields of a token that are not hash fields, in some order
FieldLists == UNION {OrdersOf(S) : S \in SUBSET ProbeFields}

\* the tokens given to validate_init_data: every choice of fields and hash
\* fields, in every order
ProbeTokens ==
    {t \in UNION {UNION {Reorderings(f \o h) : h \in HashFields(f)} : f \in FieldLists} :
        Len(t) <= MaxFields}

\* a handshake a client can attempt: (user_id of the path, initData)
Offers == UserIds \X Tokens

(***************************************************************************)
(* Tables.  seed_tasks creates tasks 1 (1.00) and 2 (2.50); no handler     *)
(* writes the tasks table.  Task 3 is a row whose is_active column the     *)
(* operator has cleared in the datastore; task id 4 is an id with no row.  *)
(***************************************************************************)
tasks ==
    (1 :> [reward |-> 100, is_active |-> TRUE])
    @@ (2 :> [reward |-> 250, is_active |-> TRUE])
    @@ (3 :> [reward |-> 500, is_active |-> FALSE])

TaskIds == {1, 2, 3, 4}

\* the columns username and referrer_id when they are NULL
NoUsername == 0
NoReferrer == 0

\* User(id=..., role=...): balance 0.00, is_banned False, no username, no
\* referrer
NewUser(u) ==
    [balance |-> 0, is_banned |-> FALSE,
     role |-> IF u \in AdminIds THEN "admin" ELSE "user",
     username |-> NoUsername, referrer_id |-> NoReferrer]

NoBalance == -1

VARIABLES
    users,        \* table users: id -> row, for the ids that have a row
    user_tasks,   \* table user_tasks: a bag of rows
    credited,     \* history: the (user, task) credits committed, a bag
    active,       \* ConnectionManager.active: user id -> set of websockets
    chan,         \* per websocket: its endpoint coroutine and its transport
    req,          \* per complete_task request: its coroutine
    redis,        \* the counter of one rate-limit key and whether it has a TTL
    limiter,      \* per rate_limit call in flight: its coroutine
    verdict,      \* history: per value handed out in this window, the outcome
    probe,        \* a call of validate_init_data: its argument and its result
    referrals,    \* table referrals: a bag of rows (the id is autoincrement)
    auth          \* per auth_telegram, get_me or /start call: its coroutine

\* the state of the rate limiter
rateVars == <<redis, limiter, verdict>>

\* the state of the ledger, the registry and the websockets
apiVars == <<users, user_tasks, credited, active, chan, req>>

\* the state no handler of the ledger, the registry or the websockets touches
restVars == <<rateVars, probe, referrals, auth>>

\* the state rate_limit does not touch
nonRateVars == <<apiVars, probe, referrals, auth>>

\* the state a call of validate_init_data does not touch
nonProbeVars == <<apiVars, rateVars, referrals, auth>>

\* the state registration and referral attribution do not touch (they write
\* the users table)
nonAuthVars == <<user_tasks, credited, active, chan, req, rateVars, probe>>

vars == <<users, user_tasks, credited, active, chan, req, redis, limiter, verdict,
          probe, referrals, auth>>

IdleChan ==
    [pc |-> "new", user_id |-> 0, init_data |-> <<>>, transport |-> "open",
     inbox |-> <<>>]

IdleReq ==
    [pc |-> "idle", user_id |-> 0, task_id |-> 0, balance |-> 0,
     existing |-> "none", targets |-> <<>>, committed |-> FALSE,
     snapshot |-> {}, delivered |-> {}, prior |-> {},
     resp |-> [status |-> "none", balance |-> NoBalance]]

\* Beside the locals of the coroutine a request records what it has done:
\* committed (session.commit() returned), snapshot (the websockets in the list
\* of send_balance), delivered (those whose send_text returned after a write
\* to an open transport) and prior (the requests that had returned completed
\* when it was issued).

\* the key rl:{host}:{path} does not exist: redis reads it as 0, with no TTL
NoKey == [count |-> 0, ttl |-> FALSE]

\* a rate_limit call that has not started; `current` is its local, in_window
\* tells that its increment belongs to the present window of the key and
\* outcome how its last call ended
IdleLimiter == [pc |-> "idle", current |-> 0, in_window |-> FALSE, outcome |-> "none"]

\* an auth_telegram, get_me or /start call that has not started.  Its locals
\* are user_id, username, start_param, referrer_id and has_referrer (the
\* referrer_id of the User object its session holds); created tells that its
\* INSERT of the User row was committed, stale that a get_me call returned a
\* user whose stored username is not the token's
IdleAuth ==
    [pc |-> "idle", kind |-> "none", user_id |-> 0, username |-> NoUsername,
     start_param |-> <<>>, referrer_id |-> NoReferrer, has_referrer |-> FALSE,
     created |-> FALSE, stale |-> FALSE, resp |-> "none"]

\* no call of validate_init_data is followed
NoProbe == [pc |-> "none", init_data |-> <<>>, result |-> [ok |-> FALSE, values |-> <<>>]]

\* the users tables registration leaves behind: any set of registered users
InitUsers == {[u \in S |-> NewUser(u)] : S \in SUBSET UserIds}

\* nothing has connected, no request and no rate_limit call has started
Quiet ==
    /\ user_tasks = EmptyBag
    /\ credited = EmptyBag
    /\ active = <<>>
    /\ chan = [c \in Chans |-> IdleChan]
    /\ req = [r \in Reqs |-> IdleReq]
    /\ redis = NoKey
    /\ limiter = [s \in RateSlots |-> IdleLimiter]
    /\ verdict = <<>>
    /\ referrals = EmptyBag
    /\ auth = [a \in AuthCalls |-> IdleAuth]

Init ==
    /\ users \in InitUsers
    /\ Quiet
    /\ probe = NoProbe

(***************************************************************************)
(* ConnectionManager                                                       *)
(***************************************************************************)
\* self.active.get(user_id, set())
active_get(reg, user_id) == IF user_id \in DOMAIN reg THEN reg[user_id] ELSE {}

\* self.active.setdefault(user_id, set()).add(websocket)
manager_connect(reg, user_id, ws) ==
    [u \in DOMAIN reg \cup {user_id} |->
        IF u = user_id THEN active_get(reg, user_id) \cup {ws} ELSE reg[u]]

\* a disconnect that discards the websocket but never pops the user's entry
manager_disconnect_no_pop(reg, user_id, ws) ==
    LET connections == active_get(reg, user_id)
    IN  IF connections = {} THEN reg
        ELSE [reg EXCEPT ![user_id] = connections \ {ws}]

\* a disconnect that forgets to discard the websocket
manager_disconnect_keeps(reg, user_id, ws) == reg

\* ConnectionManager.disconnect
manager_disconnect(reg, user_id, ws) ==
    LET connections == active_get(reg, user_id)
    IN  IF connections = {} THEN reg
        ELSE IF connections \ {ws} = {}
             THEN [u \in DOMAIN reg \ {user_id} |-> reg[u]]
             ELSE [reg EXCEPT ![user_id] = connections \ {ws}]

\* the websockets registered under any user
Registered == UNION {active[u] : u \in DOMAIN active}

\* list(set): the elements in some order
ListsOf(S) ==
    {s \in [1..Cardinality(S) -> S] : \A i, j \in 1..Cardinality(S) : s[i] = s[j] => i = j}

(***************************************************************************)
(* websocket_endpoint                                                      *)
(***************************************************************************)
\* an endpoint that does not compare the token's user id with the path's
endpoint_admits_any_user(init_data, user_id) ==
    /\ init_data # <<>>
    /\ validate_init_data(init_data).ok

\* the checks before manager.connect: TRUE when the endpoint goes on to accept
endpoint_admits(init_data, user_id) ==
    /\ init_data # <<>>
    /\ validate_init_data(init_data).ok
    /\ user_id_of(validate_init_data(init_data).values) = user_id

\* the handshakes the endpoint admits
Admitted == {o \in Offers : endpoint_admits(o[2], o[1])}

\* a client opens /ws/user/{user_id}?initData=... with one of the offers;
\* websockets are opened in the order of their numbers
websocket_endpoint(c, offers) ==
    /\ chan[c].pc = "new"
    /\ \A d \in Chans : d < c => chan[d].pc # "new"
    /\ \E o \in offers :
          LET user_id == o[1]
              init_data == o[2]
          IN
          IF o \in Admitted
          THEN chan' = [chan EXCEPT ![c].pc = "accept", ![c].user_id = user_id,
                                    ![c].init_data = init_data]
          ELSE \* close(code=1008), or the HTTPException of validate_init_data
               chan' = [chan EXCEPT ![c].pc = "closed", ![c].user_id = user_id,
                                    ![c].init_data = init_data,
                                    ![c].transport = "closed"]
    /\ UNCHANGED <<users, user_tasks, credited, active, req, restVars>>

\* manager.connect: accept() returns and the websocket is added
connect(c) ==
    /\ chan[c].pc = "accept"
    /\ active' = manager_connect(active, chan[c].user_id, c)
    /\ chan' = [chan EXCEPT ![c].pc = "receive"]
    /\ UNCHANGED <<users, user_tasks, credited, req, restVars>>

\* the peer goes away: the transport of an accepted websocket closes
transport_close(c) ==
    /\ chan[c].pc = "receive"
    /\ chan[c].transport = "open"
    /\ chan' = [chan EXCEPT ![c].transport = "closed"]
    /\ UNCHANGED <<users, user_tasks, credited, active, req, restVars>>

\* receive_text raises WebSocketDisconnect: the except clause disconnects
receive_disconnect(c) ==
    /\ chan[c].pc = "receive"
    /\ chan[c].transport = "closed"
    /\ active' = manager_disconnect(active, chan[c].user_id, c)
    /\ chan' = [chan EXCEPT ![c].pc = "ended"]
    /\ UNCHANGED <<users, user_tasks, credited, req, restVars>>

\* receive_text raises another exception (a binary frame has no "text" key:
\* KeyError): no except clause matches, the coroutine ends and the server
\* closes the transport
receive_error(c) ==
    /\ chan[c].pc = "receive"
    /\ chan[c].transport = "open"
    /\ chan' = [chan EXCEPT ![c].pc = "crashed", ![c].transport = "closed"]
    /\ UNCHANGED <<users, user_tasks, credited, active, req, restVars>>


(***************************************************************************)
(* complete_task, with its dependency get_current_user.  One session per   *)
(* request: the User object loaded by get_current_user is the one          *)
(* complete_task credits.                                                  *)
(***************************************************************************)
\* complete_task with the notification moved before the commit
complete_task_notify_first(pc) ==
    CASE pc = "get_user_task" -> "notify"
      [] pc = "commit" -> "notify"
      [] pc = "notify" -> "send"

\* the order of the statements of complete_task from line 141 on: the point
\* reached when the await at `pc` returns
complete_task_after(pc) ==
    CASE pc = "get_user_task" -> "commit"
      [] pc = "commit" -> "notify"
      [] pc = "notify" -> "send"

Response(status, balance) == [status |-> status, balance |-> balance]

\* the coroutine is over: its locals are gone, the response stays
Finish(r, status, balance) ==
    [req EXCEPT ![r].pc = "done", ![r].balance = 0, ![r].existing = "none",
                ![r].targets = <<>>, ![r].resp = Response(status, balance)]

\* the requests that have returned status completed
Completed == {q \in Reqs : req[q].pc = "done" /\ req[q].resp.status = "completed"}

\* validate_init_data and the decoding of the user id, for a header
Authenticate(init_data) ==
    LET data == validate_init_data(init_data)
    IN  [ok |-> data.ok, user_id |-> IF data.ok THEN user_id_of(data.values) ELSE 0]

\* what the offered headers authenticate to
Headers == {Authenticate(init_data) : init_data \in Tokens}

\* get_current_user: validate the header, then session.get(User, user_id);
\* requests are issued in the order of their numbers
get_current_user(r) ==
    /\ req[r].pc = "idle"
    /\ \A q \in Reqs : q < r => req[q].pc # "idle"
    /\ \E data \in Headers, task_id \in TaskIds :
          LET user_id == data.user_id
          IN  IF ~data.ok
              THEN req' = Finish(r, "error_403", NoBalance)
              ELSE IF user_id \notin DOMAIN users \/ users[user_id].is_banned
              THEN req' = [Finish(r, "error_403", NoBalance) EXCEPT
                              ![r].user_id = user_id, ![r].task_id = task_id]
              ELSE req' = [req EXCEPT ![r].pc = "get_task",
                                      ![r].user_id = user_id,
                                      ![r].task_id = task_id,
                                      ![r].balance = users[user_id].balance,
                                      ![r].prior = Completed]
    /\ UNCHANGED <<users, user_tasks, credited, active, chan, restVars>>

\* a lookup that takes every row of the tasks table, active or not
task_found_any(task_id) == task_id \in DOMAIN tasks

\* the negation of `not task or not task.is_active`
task_found(task_id) == task_id \in DOMAIN tasks /\ tasks[task_id].is_active

\* task = await session.get(Task, task_id)
get_task(r) ==
    /\ req[r].pc = "get_task"
    /\ IF ~task_found(req[r].task_id)
       THEN req' = Finish(r, "error_404", NoBalance)
       ELSE req' = [req EXCEPT ![r].pc = "get_user_task"]
    /\ UNCHANGED <<users, user_tasks, credited, active, chan, restVars>>

\* the rows of the table with primary key (user_id, task_id)
RowsOf(table, user_id, task_id) ==
    {row \in BagToSet(table) : row.user_id = user_id /\ row.task_id = task_id}

\* existing = await session.get(UserTask, ...), and the lines up to the commit:
\* the new row or flag and the new balance are pending in the session
get_user_task(r) ==
    /\ req[r].pc = "get_user_task"
    /\ LET rows == RowsOf(user_tasks, req[r].user_id, req[r].task_id)
       IN  IF \E row \in rows : row.completed
           THEN req' = Finish(r, "already_completed", NoBalance)
           ELSE req' = [req EXCEPT
                    ![r].pc = complete_task_after("get_user_task"),
                    ![r].existing = IF rows = {} THEN "none" ELSE "row",
                    ![r].balance = req[r].balance + tasks[req[r].task_id].reward]
    /\ UNCHANGED <<users, user_tasks, credited, active, chan, restVars>>

\* the primary key of user_tasks admits the INSERT
PrimaryKeyFree(table, user_id, task_id) == RowsOf(table, user_id, task_id) = {}

\* a user_tasks table without its primary key: every INSERT is admitted
CanCommitWithoutKey(table, q) == TRUE

\* the flush of the session can be committed
CanCommit(table, q) ==
    q.existing = "none" => PrimaryKeyFree(table, q.user_id, q.task_id)

\* the user_tasks table after the flush: INSERT, or UPDATE ... SET completed
FlushUserTask(table, q) ==
    IF q.existing = "none"
    THEN table (+) SetToBag({[user_id |-> q.user_id, task_id |-> q.task_id,
                              completed |-> TRUE]})
    ELSE LET old == RowsOf(table, q.user_id, q.task_id)
         IN  (table (-) SetToBag(old))
             (+) SetToBag({[row EXCEPT !.completed = TRUE] : row \in old})

\* a flush that loses the balance: the row is written, the credit is not
FlushBalanceLost(table, q) == table

\* the users table after the flush: UPDATE users SET balance = <the session's
\* value> WHERE id = user_id
FlushBalance(table, q) == [table EXCEPT ![q.user_id].balance = q.balance]

\* await session.commit(): the flush and the COMMIT take effect together, or
\* the transaction is rolled back (IntegrityError on the primary key, or the
\* datastore fails) and the exception ends the request
commit(r) ==
    /\ req[r].pc = "commit"
    /\ \/ /\ CanCommit(user_tasks, req[r])
          /\ users' = FlushBalance(users, req[r])
          /\ user_tasks' = FlushUserTask(user_tasks, req[r])
          /\ credited' = credited (+) SetToBag({<<req[r].user_id, req[r].task_id>>})
          /\ req' = [req EXCEPT ![r].pc = complete_task_after("commit"),
                                 ![r].committed = TRUE]
       \/ /\ req' = Finish(r, "error_500", NoBalance)
          /\ UNCHANGED <<users, user_tasks, credited>>
    /\ UNCHANGED <<active, chan, restVars>>

\* manager.send_balance is entered: list(self.active.get(user_id, set()))
send_balance(r) ==
    /\ req[r].pc = "notify"
    /\ \E targets \in ListsOf(active_get(active, req[r].user_id)) :
          IF targets = <<>>
          THEN req' = Finish(r, "completed", req[r].balance)
          ELSE req' = [req EXCEPT ![r].pc = complete_task_after("notify"),
                                  ![r].targets = targets,
                                  ![r].snapshot = {targets[i] : i \in DOMAIN targets}]
    /\ UNCHANGED <<users, user_tasks, credited, active, chan, restVars>>

\* the request after one iteration of the loop of send_balance
AfterSend(r, delivered) ==
    IF Tail(req[r].targets) = <<>>
    THEN [Finish(r, "completed", req[r].balance) EXCEPT ![r].delivered = delivered]
    ELSE [req EXCEPT ![r].targets = Tail(req[r].targets), ![r].delivered = delivered]

\* what an exception of ws.send_text does to the request: nothing catches it
\* in send_balance or in complete_task
SendRaised(r) == Finish(r, "error_500", NoBalance)

\* await ws.send_text(payload) for the next websocket of the list.  On a
\* closed transport the send raises, or the server drops the message
send_text(r) ==
    /\ req[r].pc = "send"
    /\ LET ws == Head(req[r].targets)
       IN  \/ /\ chan[ws].transport = "open"
              /\ chan' = [chan EXCEPT ![ws].inbox = Append(@, req[r].balance)]
              /\ req' = AfterSend(r, req[r].delivered \cup {ws})
           \/ /\ chan[ws].transport = "closed"
              /\ chan' = chan
              /\ \/ req' = SendRaised(r)
                 \/ req' = AfterSend(r, req[r].delivered)
    /\ UNCHANGED <<users, user_tasks, credited, active, restVars>>

(***************************************************************************)
(* ban_user.  Its reads (the admin, the target) cannot be invalidated      *)
(* before its commit: users are never deleted and roles never change.      *)
(***************************************************************************)
ban_user ==
    /\ \E data \in Headers, target \in UserIds, is_banned \in BOOLEAN :
          LET admin == data.user_id
          IN  /\ data.ok
              /\ admin \in DOMAIN users
              /\ ~users[admin].is_banned
              /\ users[admin].role = "admin"
              /\ target \in DOMAIN users
              /\ users[target].is_banned # is_banned
              /\ users' = [users EXCEPT ![target].is_banned = is_banned]
    /\ UNCHANGED <<user_tasks, credited, active, chan, req, restVars>>

(***************************************************************************)
(* rate_limit: the dependency of every route, followed for one key.        *)
(***************************************************************************)
\* `if current > 60`, taken one request early
over_limit_at(current) == current >= 60

\* if current > 60
over_limit(current) == current > 60

\* the history after the call that was handed the value `current` ended
Decide(s, outcome) ==
    IF limiter[s].in_window
    THEN [verdict EXCEPT ![limiter[s].current] = outcome]
    ELSE verdict

\* current = await redis.incr(key): INCR is atomic in redis; a key it creates
\* has no TTL
incr(s) ==
    /\ limiter[s].pc = "idle"
    /\ redis.count < RateCalls
    /\ LET current == redis.count + 1
       IN  /\ redis' = [redis EXCEPT !.count = current]
           /\ limiter' = [limiter EXCEPT ![s] =
                  [pc |-> IF current = 1 THEN "expire" ELSE "check",
                   current |-> current, in_window |-> TRUE, outcome |-> "none"]]
    /\ verdict' = Append(verdict, "pending")
    /\ UNCHANGED nonRateVars

\* await redis.expire(key, 60) returns: the key, if it exists, has a TTL
expire(s) ==
    /\ limiter[s].pc = "expire"
    /\ redis' = [redis EXCEPT !.ttl = redis.ttl \/ redis.count > 0]
    /\ limiter' = [limiter EXCEPT ![s].pc = "check"]
    /\ UNCHANGED <<nonRateVars, verdict>>

\* await redis.expire(key, 60) does not return: the connection to redis is
\* lost or the request's task is cancelled while it waits; the exception
\* ends the request and nothing has set a TTL
expire_raises(s) ==
    /\ limiter[s].pc = "expire"
    /\ limiter' = [limiter EXCEPT ![s] = [IdleLimiter EXCEPT !.outcome = "error"]]
    /\ verdict' = Decide(s, "error")
    /\ UNCHANGED <<nonRateVars, redis>>

\* if current > 60: raise HTTPException(429); otherwise the route goes on
check_limit(s) ==
    /\ limiter[s].pc = "check"
    /\ LET outcome == IF over_limit(limiter[s].current) THEN "denied" ELSE "allowed"
       IN  /\ limiter' = [limiter EXCEPT ![s] = [IdleLimiter EXCEPT !.outcome = outcome]]
           /\ verdict' = Decide(s, outcome)
    /\ UNCHANGED <<nonRateVars, redis>>

\* the TTL of the key runs out: redis deletes the key and the window is over
key_expires ==
    /\ redis.ttl
    /\ redis' = NoKey
    /\ limiter' = [s \in DOMAIN limiter |-> [limiter[s] EXCEPT !.in_window = FALSE]]
    /\ verdict' = <<>>
    /\ UNCHANGED nonRateVars

(***************************************************************************)
(* Registration and referral attribution: auth_telegram and get_me of the  *)
(* API, /start of the bot, and the handle_referral of each.  A start       *)
(* parameter is a text, the list of its pieces: "ref_", "abc" or a digit.  *)
(***************************************************************************)
Digits == ("1" :> 1) @@ ("2" :> 2) @@ ("3" :> 3)

\* the start parameters clients send: none, ref_1, ref_2, ref_3, abc,
\* ref_abc, ref_1ref_2
StartParams ==
    {<<>>, <<"ref_", "1">>, <<"ref_", "2">>, <<"ref_", "3">>, <<"abc">>,
     <<"ref_", "abc">>, <<"ref_", "1", "ref_", "2">>}

\* a start parameter is a string in the token; the codes of the strings
StartParamCodes == {1, 2, 3, 4, 5, 6}

StartParamText(code) ==
    CASE code = 1 -> <<"ref_", "1">>
      [] code = 2 -> <<"ref_", "2">>
      [] code = 3 -> <<"ref_", "3">>
      [] code = 4 -> <<"abc">>
      [] code = 5 -> <<"ref_", "abc">>
      [] code = 6 -> <<"ref_", "1", "ref_", "2">>

\* the usernames of the user descriptors: none, or one of two names
Usernames == {NoUsername, 1, 2}

\* user_data.get("username"), for the coding of the user JSON
username_of(values) == values["user"] % 10

\* the init data the platform issues to user u under a username, with or
\* without a start parameter, and a forged one
AuthTokens ==
    {SignWith(BotToken, << <<"auth_date", 1>>, <<"user", 10 * u + n>> >>) :
        u \in UserIds, n \in Usernames}
    \cup {SignWith(BotToken, << <<"auth_date", 1>>, <<"start_param", c>>,
                               <<"user", 10 * u + n>> >>) :
             u \in UserIds, n \in Usernames, c \in StartParamCodes}
    \cup {SignWith(ForgedToken, << <<"auth_date", 1>>, UserField(1)>>)}

\* validate_init_data and the decoding of user id, username and start_param
Decode(init_data) ==
    LET data == validate_init_data(init_data)
    IN  IF ~data.ok
        THEN [ok |-> FALSE, user_id |-> 0, username |-> NoUsername, start_param |-> <<>>]
        ELSE [ok |-> TRUE,
              user_id |-> user_id_of(data.values),
              username |-> username_of(data.values),
              start_param |-> IF "start_param" \in DOMAIN data.values
                              THEN StartParamText(data.values["start_param"])
                              ELSE <<>>]

\* what the offered init data decode to
AuthData == {Decode(init_data) : init_data \in AuthTokens}

\* start_param.split("ref_")[-1]
LastPart(text) ==
    LET cuts == {i \in 1..Len(text) : text[i] = "ref_"}
    IN  IF cuts = {} THEN text ELSE SubSeq(text, Max(cuts) + 1, Len(text))

\* int(s) does not raise ValueError
IsInt(part) == part # <<>> /\ \A i \in 1..Len(part) : part[i] \in DOMAIN Digits

\* int(s)
RECURSIVE IntOf(_)
IntOf(part) ==
    IF part = <<>> THEN 0
    ELSE 10 * IntOf(SubSeq(part, 1, Len(part) - 1)) + Digits[part[Len(part)]]

\* a handle_referral that takes the user as the user's own referrer
referrer_id_of_any(user_id, start_param) ==
    IF start_param = <<>> \/ Head(start_param) # "ref_" THEN NoReferrer
    ELSE IF ~IsInt(LastPart(start_param)) THEN NoReferrer
    ELSE IntOf(LastPart(start_param))

\* handle_referral up to its first await: the referrer id of the start
\* parameter, NoReferrer where the function returns
referrer_id_of(user_id, start_param) ==
    IF start_param = <<>> \/ Head(start_param) # "ref_" THEN NoReferrer
    ELSE IF ~IsInt(LastPart(start_param)) THEN NoReferrer
    ELSE IF IntOf(LastPart(start_param)) = user_id THEN NoReferrer
    ELSE IntOf(LastPart(start_param))

\* the call is over
Return(a, resp) == [auth EXCEPT ![a].pc = "done", ![a].resp = resp]

\* the exception of a failed commit: HTTP 500 of the API, a handler error of
\* the bot
Raised(a) == Return(a, IF auth[a].kind = "bot" THEN "raised" ELSE "error_500")

\* handle_referral is entered with the session's User object
enter_handle_referral(a, call, has_referrer) ==
    LET referrer_id == referrer_id_of(call.user_id, call.start_param)
    IN  IF referrer_id = NoReferrer
        THEN [auth EXCEPT ![a] = [call EXCEPT !.pc = "done", !.resp = "ok"]]
        ELSE [auth EXCEPT ![a] = [call EXCEPT !.pc = "get_referrer",
                                               !.referrer_id = referrer_id,
                                               !.has_referrer = has_referrer]]

\* calls are issued in the order of their numbers
NextCall(a) == auth[a].pc = "idle" /\ \A b \in AuthCalls : b < a => auth[b].pc # "idle"

\* POST /auth/telegram up to the return of session.get(User, user_id)
auth_telegram(a) ==
    /\ NextCall(a)
    /\ \E data \in AuthData :
          LET call == [auth[a] EXCEPT !.kind = "api", !.user_id = data.user_id,
                                      !.username = data.username,
                                      !.start_param = data.start_param]
          IN  IF ~data.ok
              THEN auth' = [auth EXCEPT ![a] = [IdleAuth EXCEPT
                               !.kind = "api", !.pc = "done", !.resp = "error_403"]]
              ELSE IF data.user_id \notin DOMAIN users
              THEN auth' = [auth EXCEPT ![a] = [call EXCEPT !.pc = "add_user"]]
              ELSE IF users[data.user_id].is_banned
              THEN auth' = [auth EXCEPT ![a] = [call EXCEPT !.pc = "done", !.resp = "error_403"]]
              ELSE IF data.username # NoUsername
                      /\ users[data.user_id].username # data.username
              THEN auth' = [auth EXCEPT ![a] = [call EXCEPT !.pc = "set_username"]]
              ELSE auth' = [auth EXCEPT ![a] = [call EXCEPT !.pc = "done", !.resp = "ok"]]
    /\ UNCHANGED <<users, referrals, nonAuthVars>>

\* GET /me: get_current_user, then the user is returned
get_me(a) ==
    /\ NextCall(a)
    /\ \E data \in AuthData :
          LET call == [auth[a] EXCEPT !.kind = "me", !.pc = "done",
                                      !.user_id = data.user_id,
                                      !.username = data.username]
          IN  IF ~data.ok
              THEN auth' = [auth EXCEPT ![a] = [IdleAuth EXCEPT
                               !.kind = "me", !.pc = "done", !.resp = "error_403"]]
              ELSE IF data.user_id \notin DOMAIN users \/ users[data.user_id].is_banned
              THEN auth' = [auth EXCEPT ![a] = [call EXCEPT !.resp = "error_403"]]
              ELSE auth' = [auth EXCEPT ![a] = [call EXCEPT
                               !.resp = "ok",
                               !.stale = data.username # NoUsername
                                         /\ users[data.user_id].username # data.username]]
    /\ UNCHANGED <<users, referrals, nonAuthVars>>

\* /start of the bot up to the return of session.get(User, from_user.id) in
\* get_or_create_user; for a user who has a row, handle_referral is entered
start(a) ==
    /\ NextCall(a)
    /\ \E user_id \in UserIds, username \in Usernames, start_param \in StartParams :
          LET call == [auth[a] EXCEPT !.kind = "bot", !.user_id = user_id,
                                      !.username = username,
                                      !.start_param = start_param]
          IN  IF user_id \notin DOMAIN users
              THEN auth' = [auth EXCEPT ![a] = [call EXCEPT !.pc = "add_user"]]
              ELSE auth' = enter_handle_referral(a, call,
                               users[user_id].referrer_id # NoReferrer)
    /\ UNCHANGED <<users, referrals, nonAuthVars>>

\* User(id=user_id, username=username, role=role, ...)
User(user_id, username) == [NewUser(user_id) EXCEPT !.username = username]

\* session.add(user); await session.commit(): the INSERT is committed, or
\* the primary key of users rejects it; then handle_referral is entered
add_user(a) ==
    /\ auth[a].pc = "add_user"
    /\ IF auth[a].user_id \in DOMAIN users
       THEN auth' = Raised(a) /\ UNCHANGED users
       ELSE /\ users' = users @@ (auth[a].user_id :> User(auth[a].user_id, auth[a].username))
            /\ auth' = enter_handle_referral(a, [auth[a] EXCEPT !.created = TRUE], FALSE)
    /\ UNCHANGED <<referrals, nonAuthVars>>

\* referrer = await session.get(User, referrer_id), and the lines up to the
\* commit; only the bot's handle_referral has `if user.referrer_id: return`
get_referrer(a) ==
    /\ auth[a].pc = "get_referrer"
    /\ IF auth[a].referrer_id \notin DOMAIN users
       THEN auth' = Return(a, "ok")
       ELSE IF auth[a].kind = "bot" /\ auth[a].has_referrer
       THEN auth' = Return(a, "ok")
       ELSE auth' = [auth EXCEPT ![a].pc = "add_referral"]
    /\ UNCHANGED <<users, referrals, nonAuthVars>>

\* user.referrer_id = referrer_id; session.add(Referral(...)); await
\* session.commit(): the UPDATE and the INSERT are committed together
add_referral(a) ==
    /\ auth[a].pc = "add_referral"
    /\ users' = [users EXCEPT ![auth[a].user_id].referrer_id = auth[a].referrer_id]
    /\ referrals' = referrals (+) SetToBag({[referrer_id |-> auth[a].referrer_id,
                                             referred_id |-> auth[a].user_id]})
    /\ auth' = Return(a, "ok")
    /\ UNCHANGED nonAuthVars

\* that commit fails (the datastore is unreachable, a lock wait times out):
\* nothing is written and the exception leaves handle_referral
add_referral_fails(a) ==
    /\ auth[a].pc = "add_referral"
    /\ auth' = Raised(a)
    /\ UNCHANGED <<users, referrals, nonAuthVars>>

\* user.username = username; await session.commit()
set_username(a) ==
    /\ auth[a].pc = "set_username"
    /\ users' = [users EXCEPT ![auth[a].user_id].username = auth[a].username]
    /\ auth' = Return(a, "ok")
    /\ UNCHANGED <<referrals, nonAuthVars>>

(***************************************************************************)
(* validate_init_data as a function of its argument.                       *)
(***************************************************************************)
\* the call returns its mapping or raises HTTPException(403)
validate ==
    /\ probe.pc = "called"
    /\ probe' = [probe EXCEPT !.pc = "returned",
                              !.result = validate_init_data(probe.init_data)]
    /\ UNCHANGED nonProbeVars

\* the whole system
Next ==
    \/ \E c \in Chans : websocket_endpoint(c, Offers)
    \/ \E c \in Chans : connect(c)
    \/ \E c \in Chans : transport_close(c)
    \/ \E c \in Chans : receive_disconnect(c)
    \/ \E c \in Chans : receive_error(c)
    \/ \E r \in Reqs : get_current_user(r)
    \/ \E r \in Reqs : get_task(r)
    \/ \E r \in Reqs : get_user_task(r)
    \/ \E r \in Reqs : commit(r)
    \/ \E r \in Reqs : send_balance(r)
    \/ \E r \in Reqs : send_text(r)
    \/ ban_user
    \/ \E s \in RateSlots : incr(s)
    \/ \E s \in RateSlots : expire(s)
    \/ \E s \in RateSlots : expire_raises(s)
    \/ \E s \in RateSlots : check_limit(s)
    \/ key_expires
    \/ validate
    \/ \E a \in AuthCalls : auth_telegram(a)
    \/ \E a \in AuthCalls : get_me(a)
    \/ \E a \in AuthCalls : start(a)
    \/ \E a \in AuthCalls : add_user(a)
    \/ \E a \in AuthCalls : get_referrer(a)
    \/ \E a \in AuthCalls : add_referral(a)
    \/ \E a \in AuthCalls : add_referral_fails(a)
    \/ \E a \in AuthCalls : set_username(a)

Spec == Init /\ [][Next]_vars

\* registration and referral attribution: concurrent calls of the API and
\* of the bot
NextAuth ==
    \/ \E a \in AuthCalls : auth_telegram(a)
    \/ \E a \in AuthCalls : get_me(a)
    \/ \E a \in AuthCalls : start(a)
    \/ \E a \in AuthCalls : add_user(a)
    \/ \E a \in AuthCalls : get_referrer(a)
    \/ \E a \in AuthCalls : add_referral(a)
    \/ \E a \in AuthCalls : add_referral_fails(a)
    \/ \E a \in AuthCalls : set_username(a)

\* user 3 does not call; as a registered user 3 can be named as a referrer
InitAuth ==
    /\ users \in {[u \in S |-> NewUser(u)] : S \in SUBSET (UserIds \cup {3})}
    /\ Quiet
    /\ probe = NoProbe

SpecAuth == InitAuth /\ [][NextAuth]_vars

\* the rate limiter: concurrent calls on one key, the key expiring
NextRate ==
    \/ \E s \in RateSlots : incr(s)
    \/ \E s \in RateSlots : expire(s)
    \/ \E s \in RateSlots : expire_raises(s)
    \/ \E s \in RateSlots : check_limit(s)
    \/ key_expires

\* rate_limit reads no table: the limiter is followed over an empty datastore
InitRate == Init /\ users = <<>>

SpecRate == InitRate /\ [][NextRate]_vars

\* validate_init_data called with one token after another
NextValidate ==
    \/ validate
    \/ /\ probe.pc = "returned"
       /\ probe' \in {[NoProbe EXCEPT !.pc = "called", !.init_data = t] : t \in ProbeTokens}
       /\ UNCHANGED nonProbeVars

\* validate_init_data is called with one of the tokens
InitValidate ==
    /\ users = <<>>
    /\ Quiet
    /\ probe \in {[NoProbe EXCEPT !.pc = "called", !.init_data = t] : t \in ProbeTokens}

SpecValidate == InitValidate /\ [][NextValidate]_vars

\* the websocket gate: handshakes with every offer, the administrator banning
NextGate ==
    \/ \E c \in 1..GateChans : websocket_endpoint(c, Offers)
    \/ \E c \in 1..GateChans : connect(c)
    \/ \E c \in 1..GateChans : transport_close(c)
    \/ \E c \in 1..GateChans : receive_disconnect(c)
    \/ \E c \in 1..GateChans : receive_error(c)
    \/ ban_user

SpecGate == Init /\ [][NextGate]_vars

\* the ledger: concurrent complete_task requests, websockets of admitted
\* clients
NextLedger ==
    \/ \E c \in LedgerChans : websocket_endpoint(c, Admitted)
    \/ \E c \in LedgerChans : connect(c)
    \/ \E c \in LedgerChans : transport_close(c)
    \/ \E c \in LedgerChans : receive_disconnect(c)
    \/ \E c \in LedgerChans : receive_error(c)
    \/ \E r \in 1..LedgerReqs : get_current_user(r)
    \/ \E r \in 1..LedgerReqs : get_task(r)
    \/ \E r \in 1..LedgerReqs : get_user_task(r)
    \/ \E r \in 1..LedgerReqs : commit(r)
    \/ \E r \in 1..LedgerReqs : send_balance(r)
    \/ \E r \in 1..LedgerReqs : send_text(r)

SpecLedger == Init /\ [][NextLedger]_vars

\* the fan-out: complete_task notifying the websockets of admitted clients
NextNotify ==
    \/ \E c \in 1..NotifyChans : websocket_endpoint(c, Admitted)
    \/ \E c \in 1..NotifyChans : connect(c)
    \/ \E c \in 1..NotifyChans : transport_close(c)
    \/ \E c \in 1..NotifyChans : receive_disconnect(c)
    \/ \E c \in 1..NotifyChans : receive_error(c)
    \/ \E r \in NotifyReqs : get_current_user(r)
    \/ \E r \in NotifyReqs : get_task(r)
    \/ \E r \in NotifyReqs : get_user_task(r)
    \/ \E r \in NotifyReqs : commit(r)
    \/ \E r \in NotifyReqs : send_balance(r)
    \/ \E r \in NotifyReqs : send_text(r)

SpecNotify == Init /\ [][NextNotify]_vars


(***************************************************************************)
(* Properties of the ledger (complete_task).                               *)
(***************************************************************************)
\* the number of user_tasks rows (user_id, task_id) with completed = true
CompletedRows(user_id, task_id) ==
    CopiesIn([user_id |-> user_id, task_id |-> task_id, completed |-> TRUE], user_tasks)

\* the requests of (user_id, task_id) whose commit went through
Crediting(user_id, task_id) ==
    {r \in Reqs : /\ req[r].user_id = user_id
                  /\ req[r].task_id = task_id
                  /\ req[r].committed}

\* the requests of (user_id, task_id) that were told the task is completed
ToldCompleted(user_id, task_id) ==
    {r \in Reqs : /\ req[r].user_id = user_id
                  /\ req[r].task_id = task_id
                  /\ req[r].pc = "done"
                  /\ req[r].resp.status \in {"completed", "already_completed"}}

\* C1: however the steps of the complete_task requests of one (user, task)
\* interleave, at most one of them commits a credit, the credits committed
\* and the completed rows of (user, task) are as many as the requests that
\* committed, and once a request was told completed or already_completed
\* there is exactly one credit and exactly one completed row.
C1_ExactlyOneCredit ==
    \A u \in UserIds, t \in DOMAIN tasks :
        /\ Cardinality(Crediting(u, t)) <= 1
        /\ CopiesIn(<<u, t>>, credited) = Cardinality(Crediting(u, t))
        /\ CompletedRows(u, t) = Cardinality(Crediting(u, t))
        /\ Cardinality(RowsOf(user_tasks, u, t)) <= 1
        /\ ToldCompleted(u, t) # {}
              => CopiesIn(<<u, t>>, credited) = 1 /\ CompletedRows(u, t) = 1

\* C1 witness: two requests of one (user, task) both found no row; one has
\* committed its credit and the other is about to commit.
C1_Witness ==
    \E r1, r2 \in Reqs :
        /\ r1 # r2
        /\ req[r1].user_id = req[r2].user_id
        /\ req[r1].task_id = req[r2].task_id
        /\ req[r1].committed
        /\ req[r2].pc = "commit"
        /\ req[r2].existing = "none"

\* C2 (as claimed): a complete_task(u, t) issued after one that returned
\* completed returns already_completed together with the user's current
\* balance.
C2_SecondCallReturnsBalance ==
    \A r1, r2 \in Reqs :
        (/\ r1 \in req[r2].prior
         /\ req[r1].user_id = req[r2].user_id
         /\ req[r1].task_id = req[r2].task_id
         /\ req[r2].pc = "done")
        => /\ req[r2].resp.status = "already_completed"
           /\ req[r2].resp.balance = users[req[r2].user_id].balance

\* a completion record of the user is persisted
HasCompletion(u) == \E row \in BagToSet(user_tasks) : row.user_id = u /\ row.completed

\* C3: the completion flag and the credit are one unit.  In every persisted
\* state (u, t) has a committed credit iff a completed row (u, t) exists, and
\* a user has a credited balance iff the user has a completion record; a
\* commit that fails leaves the users and user_tasks tables as they were.
C3_AtomicUnit ==
    /\ [](\A u \in UserIds, t \in DOMAIN tasks :
             CopiesIn(<<u, t>>, credited) >= 1 <=> CompletedRows(u, t) >= 1)
    /\ [](\A u \in DOMAIN users : users[u].balance > 0 <=> HasCompletion(u))
    /\ [][\A r \in Reqs :
             (req[r].pc = "commit" /\ req'[r].pc = "done")
             => users' = users /\ user_tasks' = user_tasks]_vars

\* C3 witness: a commit has failed and neither the flag nor the balance of
\* its (user, task) has changed.
C3_Witness ==
    \E r \in Reqs :
        /\ req[r].pc = "done"
        /\ req[r].resp.status = "error_500"
        /\ ~req[r].committed
        /\ RowsOf(user_tasks, req[r].user_id, req[r].task_id) = {}
        /\ users[req[r].user_id].balance = 0


(***************************************************************************)
(* Properties of the fan-out (send_balance inside complete_task).          *)
(***************************************************************************)
\* C4 (as claimed): a send that fails inside send_balance is swallowed: a
\* complete_task whose commit went through returns status completed with
\* the new balance.
C4_SendFailureSwallowed ==
    \A r \in Reqs :
        (req[r].committed /\ req[r].pc = "done")
        => /\ req[r].resp.status = "completed"
           /\ req[r].resp.balance # NoBalance

\* C5 (as claimed): send_balance delivers to every websocket of its list
\* whose transport works, wherever a failing websocket stands in the list: a
\* websocket of the list that is still open when the request is over has
\* received the message.
C5_SiblingsStillReceive ==
    \A r \in Reqs :
        (req[r].committed /\ req[r].pc = "done")
        => \A ws \in req[r].snapshot :
              chan[ws].transport = "open" => ws \in req[r].delivered

\* C6: send_balance runs only after the commit: a request that is about to
\* notify or is sending has its completed row persisted and the user's
\* balance credited, a message is in an inbox only if its user has a
\* completion record, and no step of a request from the notification on
\* (delivery, send error, no websocket) changes the users or user_tasks
\* tables.
C6_NotifyAfterCommit ==
    /\ [](\A r \in Reqs :
             req[r].pc \in {"notify", "send"}
             => /\ CompletedRows(req[r].user_id, req[r].task_id) >= 1
                /\ CopiesIn(<<req[r].user_id, req[r].task_id>>, credited) >= 1
                /\ users[req[r].user_id].balance > 0)
    /\ [](\A c \in Chans : chan[c].inbox # <<>> => HasCompletion(chan[c].user_id))
    /\ [][\A r \in Reqs :
             (req[r].pc \in {"notify", "send"} /\ req'[r] # req[r])
             => users' = users /\ user_tasks' = user_tasks]_vars

\* C6 witness: a send raised after the commit; the request ended with an
\* error and the row and the credit are persisted.
C6_Witness ==
    \E r \in Reqs :
        /\ req[r].committed
        /\ req[r].pc = "done"
        /\ req[r].resp.status = "error_500"
        /\ CompletedRows(req[r].user_id, req[r].task_id) = 1
        /\ users[req[r].user_id].balance = tasks[req[r].task_id].reward

(***************************************************************************)
(* Properties of the websocket gate (websocket_endpoint).                  *)
(***************************************************************************)
\* C7: a websocket is registered under a user id only if its handshake
\* carried init data the platform issued (present, signed with the bot
\* token) to that very user id; a handshake is rejected exactly when its
\* init data is not such, a rejected websocket is never registered and its
\* rejection leaves the registry as it was.
C7_RegisteredOnlyIfIssued ==
    /\ [](\A u \in DOMAIN active : \A c \in active[u] :
             chan[c].user_id = u /\ chan[c].init_data \in Issued(u))
    /\ [](\A c \in Chans :
             chan[c].pc # "new"
             => (chan[c].pc = "closed" <=> chan[c].init_data \notin Issued(chan[c].user_id)))
    /\ [](\A c \in Chans : chan[c].pc = "closed" => c \notin Registered)
    /\ [][\A c \in Chans :
             (chan[c].pc = "new" /\ chan'[c].pc = "closed") => active' = active]_vars

\* C7 witness: one websocket is registered, and another, whose init data
\* was issued to a different user than the one it asked for, was rejected.
C7_Witness ==
    \E c, d \in Chans :
        /\ c \in Registered
        /\ chan[d].pc = "closed"
        /\ \E u \in UserIds : u # chan[d].user_id /\ chan[d].init_data \in Issued(u)

\* C8 (as claimed): the gate of the websocket looks the user up: a handshake
\* is admitted only for a user that has a row and is not banned at that time.
C8_GateChecksDatastore ==
    [][\A c \in Chans :
          (chan[c].pc = "new" /\ chan'[c].pc = "accept")
          => /\ chan'[c].user_id \in DOMAIN users
             /\ ~users[chan'[c].user_id].is_banned]_vars

\* C9 (as claimed): a websocket whose transport has closed is removed from
\* the registry.  Only the endpoint's coroutine removes it, so once the
\* coroutine is over the websocket must be out of the registry.
C9_ClosedChannelPruned ==
    \A c \in Chans :
        chan[c].pc \in {"closed", "ended", "crashed"} => c \notin Registered

(***************************************************************************)
(* Properties of the registry (ConnectionManager).                         *)
(***************************************************************************)
\* the websockets connected under user_id and not disconnected since
Connected(user_id) ==
    {c \in Chans : chan[c].user_id = user_id /\ chan[c].pc \in {"receive", "crashed"}}

\* C10: the registry holds for each user exactly the websockets connected
\* under that user and not disconnected since; send_balance(u, b) takes
\* exactly these as its list, delivers only to websockets of the list, and
\* when it returns every websocket of the list whose transport is open has
\* received the message; no websocket of another user receives anything.
C10_FanOutExact ==
    /\ [](\A u \in UserIds : active_get(active, u) = Connected(u))
    /\ [](\A r \in Reqs :
             /\ req[r].delivered \subseteq req[r].snapshot
             /\ \A ws \in req[r].snapshot : chan[ws].user_id = req[r].user_id
             /\ req[r].resp.status = "completed"
                   => \A ws \in req[r].snapshot :
                         chan[ws].transport = "open" => ws \in req[r].delivered)
    /\ [](\A c \in Chans :
             Len(chan[c].inbox) = Cardinality({r \in Reqs : c \in req[r].delivered}))
    /\ [][\A r \in Reqs :
             (req[r].pc = "notify" /\ req'[r] # req[r])
             => req'[r].snapshot = Connected(req[r].user_id)]_vars

\* C10 witness: three websockets were connected for the user, one was
\* disconnected before the notification, and the message was delivered to
\* the remaining two.
C10_Witness ==
    \E r \in Reqs :
        /\ req[r].resp.status = "completed"
        /\ Cardinality(req[r].delivered) = 2
        /\ req[r].delivered = req[r].snapshot
        /\ \E c \in Chans :
              /\ chan[c].pc = "ended"
              /\ chan[c].user_id = req[r].user_id
              /\ c \notin req[r].snapshot
              /\ chan[c].inbox = <<>>

\* C11: no user id of the registry maps to an empty set of websockets, and a
\* user none of whose websockets is connected (all were disconnected, or
\* none was ever connected) has no entry.
C11_NoEmptyEntry ==
    /\ \A u \in DOMAIN active : active[u] # {}
    /\ \A u \in UserIds : Connected(u) = {} => u \notin DOMAIN active

\* C11 witness: the last websocket of a user was disconnected and the user
\* has no entry any more.
C11_Witness ==
    \E c \in Chans :
        /\ chan[c].pc = "ended"
        /\ Connected(chan[c].user_id) = {}
        /\ chan[c].user_id \notin DOMAIN active

\* the rewards of the completed user_tasks rows of a user, summed over the
\* tasks of S
RECURSIVE RewardsOver(_, _)
RewardsOver(user_id, S) ==
    IF S = {} THEN 0
    ELSE LET t == CHOOSE x \in S : TRUE
         IN  CompletedRows(user_id, t) * tasks[t].reward
             + RewardsOver(user_id, S \ {t})

\* the task id names no row of the tasks table, or a row with is_active false
AbsentOrInactive(task_id) ==
    \A t \in DOMAIN tasks : t = task_id => ~tasks[t].is_active

\* C18: a complete_task request whose task has no row or is not active ends
\* with 404 at the task lookup, and that step leaves the users table, the
\* user_tasks table, the registry and the websockets (their inboxes) as they
\* were; such a request never commits and never delivers a message, and no
\* user_tasks row names such a task.
C18_NotFoundChangesNothing ==
    /\ [](/\ \A r \in Reqs :
                req[r].pc # "idle" /\ req[r].user_id # 0 /\ AbsentOrInactive(req[r].task_id)
                => /\ req[r].pc \in {"get_task", "done"}
                   /\ ~req[r].committed
                   /\ req[r].snapshot = {} /\ req[r].delivered = {}
          /\ \A row \in BagToSet(user_tasks) : ~AbsentOrInactive(row.task_id))
    /\ [][\A r \in Reqs :
             req[r].pc = "get_task" /\ AbsentOrInactive(req[r].task_id) /\ req'[r] # req[r]
             => /\ req'[r].pc = "done"
                /\ req'[r].resp = Response("error_404", NoBalance)
                /\ UNCHANGED <<users, user_tasks, credited, active, chan>>]_vars

\* C18 witness: a user with a registered websocket and a credited balance
\* has asked for the inactive task and has got 404; a request for the id
\* with no row has got 404 too.
C18_Witness ==
    \E r \in Reqs :
        /\ req[r].pc = "done" /\ req[r].resp.status = "error_404"
        /\ req[r].task_id \in DOMAIN tasks
        /\ Connected(req[r].user_id) # {}
        /\ users[req[r].user_id].balance > 0

\* C20: in every state of the datastore the balance of a user is the sum of
\* the rewards of the user's completed user_tasks rows.
C20_BalanceIsSumOfRewards ==
    \A u \in DOMAIN users : users[u].balance = RewardsOver(u, DOMAIN tasks)

(***************************************************************************)
(* Properties of the rate limiter.                                         *)
(***************************************************************************)
\* the values of this window whose call ended with the outcome
ValuesWith(outcome) == {n \in 1..Len(verdict) : verdict[n] = outcome}

\* C12: within one window of a key the calls are handed the values 1, 2, ...
\* each to one call, however their steps interleave; a call is denied if and
\* only if its value exceeds the limit, so the calls allowed are those of the
\* values up to 60 (all of them, once they have ended and unless redis failed
\* under them) and never more than 60, and every later call is denied.
C12_ExactlyLimitAllowed ==
    /\ [](/\ Len(verdict) = redis.count
          /\ \A n \in 1..Len(verdict) :
                /\ verdict[n] = "allowed" => n <= 60
                /\ verdict[n] = "denied" => n > 60
                /\ verdict[n] = "error" => n = 1
                /\ verdict[n] = "pending"
                   <=> Cardinality({s \in RateSlots :
                           /\ limiter[s].pc # "idle"
                           /\ limiter[s].in_window
                           /\ limiter[s].current = n}) = 1
          /\ Cardinality(ValuesWith("allowed")) <= 60
          /\ ValuesWith("pending") = {} /\ ValuesWith("error") = {}
             => /\ ValuesWith("allowed") = {n \in 1..redis.count : n <= 60}
                /\ ValuesWith("denied") = {n \in 1..redis.count : n > 60})
    /\ [][\A s \in RateSlots :
             limiter[s].pc = "check" /\ limiter'[s].pc = "idle"
             => /\ limiter'[s].outcome \in {"allowed", "denied"}
                /\ limiter'[s].outcome = "denied" <=> limiter[s].current > 60]_vars

\* C12 witness: sixty calls of one window were allowed and a further one was
\* denied.
C12_Witness ==
    /\ Cardinality(ValuesWith("allowed")) = 60
    /\ ValuesWith("denied") # {}

\* C13: a counter that exists has a TTL, or the call that created it is about
\* to set one; otherwise no later call sets it (only the call that reads 1
\* does) and the counter stays for ever.
C13_CounterHasExpiry ==
    redis.count > 0 => redis.ttl \/ \E s \in RateSlots : limiter[s].pc = "expire"

(***************************************************************************)
(* Properties of validate_init_data.                                       *)
(***************************************************************************)
\* the hash fields of a token
HashesOf(t) == SelectSeq(t, LAMBDA p : p[1] = "hash")

\* the token is not empty, has a hash field and a user field, and the digest
\* of its other fields in ascending order, under the bot token, is the hash
\* it supplies (the last one, if it supplies several)
WellSigned(t) ==
    /\ t # <<>>
    /\ HashesOf(t) # <<>>
    /\ \E i \in 1..Len(t) : t[i][1] = "user"
    /\ HashesOf(t)[Len(HashesOf(t))][2] = DigestOf(BotToken, t)

\* a call has returned: it succeeded exactly for a well signed token, a
\* failure carries no mapping and a success carries a value for each key of
\* the token
ValidatedIffWellSigned ==
    probe.pc = "returned"
    => /\ probe.result.ok <=> WellSigned(probe.init_data)
       /\ ~probe.result.ok => probe.result.values = <<>>
       /\ probe.result.ok
          => /\ DOMAIN probe.result.values
                = {probe.init_data[i][1] : i \in 1..Len(probe.init_data)}
             /\ \A k \in DOMAIN probe.result.values :
                   \E i \in 1..Len(probe.init_data) :
                      probe.init_data[i] = <<k, probe.result.values[k]>>

DistinctKeys(t) == \A i, j \in 1..Len(t) : t[i][1] = t[j][1] => i = j

ReferralRows(user_id) ==
    BagCardinality([row \in {x \in BagToSet(referrals) : x.referred_id = user_id}
                      |-> CopiesIn(row, referrals)])

\* C14: a referrer_id that is set never changes, and no user is the
\* referred one of more than one referrals row, however the calls of the
\* API and the /start commands interleave and whatever start parameters
\* they carry.
C14_AttributedAtMostOnce ==
    /\ [](\A u \in DOMAIN users : ReferralRows(u) <= 1)
    /\ [][\A u \in DOMAIN users :
             users[u].referrer_id # NoReferrer
             => users'[u].referrer_id = users[u].referrer_id]_vars

\* C15: an auth_telegram call that has created the User row returns the
\* user, whatever its start parameter and whatever becomes of the write of
\* its referral; the row it created stays.
C15_RegistrationSurvivesReferral ==
    \A a \in AuthCalls :
        auth[a].kind = "api" /\ auth[a].created
        => /\ auth[a].user_id \in DOMAIN users
           /\ auth[a].pc = "done" => auth[a].resp = "ok"

\* the start parameter names the caller as the referrer
SelfReferential(call) ==
    /\ call.start_param # <<>>
    /\ Head(call.start_param) = "ref_"
    /\ IsInt(LastPart(call.start_param))
    /\ IntOf(LastPart(call.start_param)) = call.user_id

\* C17: no referrals row names a user as the user's own referrer, and every
\* row names a referrer that has a users row (rows of users are never
\* deleted, so it had one when the referrals row was written); a call whose
\* start parameter names the caller sets no referrer_id and adds no
\* referrals row, and the User row it creates has no referrer.
C17_NoSelfReferral ==
    /\ [](/\ \A row \in BagToSet(referrals) :
                /\ row.referrer_id # row.referred_id
                /\ row.referrer_id \in DOMAIN users
                /\ row.referred_id \in DOMAIN users
          /\ \A u \in DOMAIN users : users[u].referrer_id # u
          /\ \A a \in AuthCalls :
                SelfReferential(auth[a])
                => auth[a].pc \notin {"get_referrer", "add_referral"})
    /\ [][\A a \in AuthCalls :
             auth'[a] # auth[a] /\ SelfReferential(auth'[a])
             => /\ referrals' = referrals
                /\ \A u \in DOMAIN users : users'[u].referrer_id = users[u].referrer_id
                /\ \A u \in DOMAIN users' \ DOMAIN users :
                      users'[u].referrer_id = NoReferrer]_vars

\* C17 witness: a referral was attributed to a user, and a call of another
\* user, whose start parameter named that user, has registered the user
\* with no referrer and no row.
C17_Witness ==
    /\ referrals # EmptyBag
    /\ \E a \in AuthCalls :
          /\ SelfReferential(auth[a])
          /\ auth[a].created /\ auth[a].pc = "done" /\ auth[a].resp = "ok"
          /\ users[auth[a].user_id].referrer_id = NoReferrer
          /\ ReferralRows(auth[a].user_id) = 0

\* C19: a call that went through get_current_user for a user who is
\* registered and not banned does not return while the stored username
\* differs from the username of its token.
C19_GateUpdatesUsername ==
    \A a \in AuthCalls :
        auth[a].kind = "me" /\ auth[a].pc = "done" /\ auth[a].resp = "ok"
        => ~auth[a].stale

(***************************************************************************)
(* Properties of the balance messages.                                     *)
(***************************************************************************)
\* the complete_task requests of the user that have passed the gate and not
\* yet ended
InFlight(user_id) ==
    {r \in Reqs : req[r].user_id = user_id /\ req[r].pc \notin {"idle", "done"}}

\* the websocket was in the list of every send_balance call made for the
\* user, its transport has been open ever since, and each of these calls
\* delivered its message to it
StayedOpen(c, user_id) ==
    /\ c \in Connected(user_id)
    /\ chan[c].transport = "open"
    /\ chan[c].inbox # <<>>
    /\ \A r \in Reqs :
          req[r].user_id = user_id /\ req[r].committed => c \in req[r].delivered

\* C21: when no complete_task request of a user is in flight, the last
\* message in the inbox of each websocket of the user that stayed open is
\* the balance of the user's row.  The states in which a credit was lost to
\* a concurrent write are left aside: there the balance is the sum of the
\* rewards credited.
C21_LastMessageIsBalance ==
    \A u \in DOMAIN users :
        InFlight(u) = {} /\ users[u].balance = RewardsOver(u, DOMAIN tasks)
        => \A c \in Chans :
              StayedOpen(c, u)
              => chan[c].inbox[Len(chan[c].inbox)] = users[u].balance

====
